---- MODULE Spec2Model ----
(***************************************************************************)
(* A model of outlook-calendar-notes: the body-text cleaner                *)
(* (src/utils/text_cleaner.py), the date window and the Outlook fetcher    *)
(* (src/calendar/fetcher.py) and the event-processing pipeline of main()   *)
(* (main.py).                                                              *)
(*                                                                         *)
(* Texts are sequences of lexemes.  A lexeme is a TLA+ string holding the  *)
(* very characters it stands for; the text is the concatenation of its     *)
(* lexemes.  The lexemes are the fragments the regular expressions of      *)
(* clean_body_text look for, the white-space characters str.strip()        *)
(* removes, and a word of ordinary text.                                   *)
(***************************************************************************)
EXTENDS Integers, Sequences, FiniteSets, TLC

VARIABLES
    \* ---- clean_body_text applied to one body (SpecClean)
    body,           \* the argument: None or a str
    cleaned,        \* clean_body_text(body)
    recleaned,      \* clean_body_text(cleaned)
    craised,        \* TRUE when a call of clean_body_text raised
    cpc,            \* "input" -> "cleaned" -> "recleaned"
    \* ---- get_outlook_events' window (SpecWindow)
    now,            \* datetime.now(), in ticks
    days_back,
    days_forward,
    start_date,
    end_date,
    wpc,            \* "args" -> "resolved"
    \* ---- one run of main() (Spec)
    pc,             \* position of main()
    outlook,        \* OutlookCalendarFetcher.outlook
    namespace,      \* OutlookCalendarFetcher.namespace
    calendar,       \* OutlookCalendarFetcher.calendar
    source,         \* what Restrict yields for the window, in [Start] order
    filtered_items, \* what get_outlook_events returned
    idx,            \* number of items the for loop has consumed
    events,         \* the output list of main()
    handled,        \* per consumed item: "appended", "skipped_ooo", "skipped_dates", "error"
    fetch_log,      \* how the fetch ended: "none", "ok", "reinit_failed", "fetch_raised"
    propagated,     \* TRUE when an exception left get_outlook_events
    trace,          \* what main() has called and logged so far, in order
    \* ---- one call of sync_outlook (SpecSync)
    retries,        \* the argument retries
    timeout,        \* the argument timeout, in seconds
    attempt,        \* the loop variable: number of the last attempt started
    outcomes,       \* per attempt: "ok", "raised_before_wait", "raised_after_wait"
    slept,          \* the calls of time.sleep, in order: [why, secs]
    sync_ret,       \* what sync_outlook returned
    spc,            \* "loop" -> "returned"
    \* ---- the rest of main() (SpecMain)
    export_json,    \* args.export_json
    exported,       \* "none", "not_requested", "written", "failed"
    summary,        \* None, or the number of events the summary reported
    \* ---- one call of JsonExporter.export_events (SpecExport)
    events_df,      \* the rows of the argument events_df
    export_data,    \* None, or the document built at line 142
    export_raised,  \* TRUE when export_events raised
    xpc,            \* "args" -> "returned" or "raised"
    \* ---- the COM session over one use of the fetcher (SpecFetcher)
    caller,         \* "main" or "dashboard" (get_events_df)
    com_inits,      \* calls of pythoncom.CoInitialize that succeeded
    com_uninits,    \* calls of pythoncom.CoUninitialize
    fetcher_alive,  \* TRUE from the constructor to __del__
    fpc,            \* position of the caller
    \* ---- one call of get_today_events (SpecViewer); its locals
    \* filtered_items and events are the variables of those names above
    view_ret,       \* None, or [type |-> "list", v |-> the list returned]
    vpc             \* "connect" -> "loop" -> "returned"

cleanVars  == <<body, cleaned, recleaned, craised, cpc>>
windowVars == <<now, days_back, days_forward, start_date, end_date, wpc>>
mainVars   == <<pc, outlook, namespace, calendar, source, filtered_items, idx,
                events, handled, fetch_log, propagated, trace>>
syncVars   == <<retries, timeout, attempt, outcomes, slept, sync_ret, spc>>
exportVars == <<export_json, exported, summary>>
jsonVars   == <<events_df, export_data, export_raised, xpc>>
comVars    == <<caller, com_inits, com_uninits, fetcher_alive, fpc>>
viewVars   == <<view_ret, vpc>>
restVars   == <<syncVars, exportVars, jsonVars, comVars, viewVars>>
vars       == <<cleanVars, windowVars, mainVars, restVars>>

----------------------------------------------------------------------------
(* Python values *)

None    == [type |-> "NoneType"]
Str(t)  == [type |-> "str", v |-> t]
Dt(t)   == [type |-> "datetime", v |-> t]

Bool(b) == [type |-> "bool", v |-> b]

\* bool(x) of a Python value
Truthy(x) ==
    /\ x.type # "NoneType"
    /\ x.type = "str" => x.v # <<>>
    /\ x.type = "bool" => x.v

----------------------------------------------------------------------------
(* Lexemes *)

T    == "Agenda"
SP   == " "
NL   == "\n"
CR   == "\r"
NH   == "Need help?"
URL  == "<https://aka.ms/JoinTeamsMeeting?omkt="
GT   == ">"
MT   == "Microsoft Teams"
JC   == "Join conversation"
U1   == "_"
U15  == "_______________"
CJ   == "Click here to join"
JV   == "Join with a video conferencing"
JMT  == "Join Microsoft Teams Meeting"
\* what is left of JMT before the "Microsoft Teams" inside it, and that stripped
JOIN_SP == "Join "
JOIN    == "Join"

Lexemes == {T, SP, NL, CR, NH, URL, GT, MT, JC, U1, U15, CJ, JV, JMT}

\* number of '_' characters a lexeme consists of (0: it is not a run of '_')
Underscores(x) == IF x = U1 THEN 1 ELSE IF x = U15 THEN 15 ELSE 0

\* the characters str.strip() removes
IsSpace(x) == x \in {SP, NL, CR}

\* "Microsoft Teams" occurs in the lexeme
HasMT(x) == x \in {MT, JMT}

\* the part of lexeme x before the "Microsoft Teams" in it
BeforeMT(x) == IF x = JMT THEN <<JOIN_SP>> ELSE <<>>

----------------------------------------------------------------------------
(* clean_body_text: the regular expressions *)

\* the pattern of line 9 and the five of the list `patterns`
P_NEED_HELP   == "Need help\\?.*?<https://aka\\.ms/JoinTeamsMeeting\\?omkt=.*?>"
P_TEAMS       == "Microsoft Teams.*?(?:\\r\\n|\\n).*?Join conversation"
P_UNDERSCORES == "________________+.*$"
P_CLICK_HERE  == "Click here to join.*$"
P_JOIN_VIDEO  == "Join with a video conferencing.*$"
P_JOIN_TEAMS  == "Join Microsoft Teams Meeting.*$"

patterns_reordered ==
    <<P_JOIN_TEAMS, P_JOIN_VIDEO, P_CLICK_HERE, P_UNDERSCORES, P_TEAMS>>

patterns == <<P_TEAMS, P_UNDERSCORES, P_CLICK_HERE, P_JOIN_VIDEO, P_JOIN_TEAMS>>

\* some index in lo..Len(s) holds lexeme x
OccursFrom(s, lo, x) == \E j \in lo..Len(s) : s[j] = x

\* total number of '_' in the consecutive underscore lexemes from index i on
RECURSIVE RunOfUnderscores(_, _)
RunOfUnderscores(s, i) ==
    IF i > Len(s) \/ Underscores(s[i]) = 0 THEN 0
    ELSE Underscores(s[i]) + RunOfUnderscores(s, i + 1)

\* pattern p (under re.DOTALL) has a match that starts in lexeme i of s
MatchesAt(p, s, i) ==
    CASE p = P_NEED_HELP ->
           /\ s[i] = NH
           /\ \E j \in (i + 1)..Len(s) : s[j] = URL /\ OccursFrom(s, j + 1, GT)
      [] p = P_TEAMS ->
           /\ HasMT(s[i])
           /\ \E j \in (i + 1)..Len(s) : s[j] = NL /\ OccursFrom(s, j + 1, JC)
      [] p = P_UNDERSCORES ->
           /\ Underscores(s[i]) > 0
           /\ RunOfUnderscores(s, i) >= 16
      [] p = P_CLICK_HERE -> s[i] = CJ
      [] p = P_JOIN_VIDEO -> s[i] = JV
      [] p = P_JOIN_TEAMS -> s[i] = JMT

\* the lexeme in which the leftmost match of p starts; 0 when p has no match
FirstMatch(p, s) ==
    LET starts == {i \in 1..Len(s) : MatchesAt(p, s, i)}
    IN  IF starts = {} THEN 0
        ELSE CHOOSE i \in starts : \A k \in starts : i <= k

\* the characters of lexeme x that precede a match of p starting in x
BeforeMatch(p, x) == IF p = P_TEAMS THEN BeforeMT(x) ELSE <<>>

\* re.split(p, s, flags=re.DOTALL)[0]
re_split_0(p, s) ==
    LET i == FirstMatch(p, s)
    IN  IF i = 0 THEN s
        ELSE SubSeq(s, 1, i - 1) \o BeforeMatch(p, s[i])

\* for pattern in patterns: body = re.split(pattern, body, flags=re.DOTALL)[0]
RECURSIVE for_pattern_in(_, _)
for_pattern_in(ps, s) ==
    IF ps = <<>> THEN s
    ELSE for_pattern_in(Tail(ps), re_split_0(Head(ps), s))

\* str.lstrip(), str.rstrip(), str.strip()
RECURSIVE lstrip(_)
lstrip(s) ==
    IF s = <<>> THEN <<>>
    ELSE IF IsSpace(Head(s)) THEN lstrip(Tail(s))
    ELSE s

RECURSIVE rstrip(_)
rstrip(s) ==
    IF s = <<>> THEN <<>>
    ELSE IF IsSpace(s[Len(s)]) THEN rstrip(SubSeq(s, 1, Len(s) - 1))
    ELSE IF s[Len(s)] = JOIN_SP THEN SubSeq(s, 1, Len(s) - 1) \o <<JOIN>>
    ELSE s

strip(s) == rstrip(lstrip(s))

\* number of consecutive "\n" from index i on
RECURSIVE RunOfNewlines(_, _)
RunOfNewlines(s, i) ==
    IF i > Len(s) \/ s[i] # NL THEN 0 ELSE 1 + RunOfNewlines(s, i + 1)

\* re.sub(r'\n{3,}', '\n\n', s)
RECURSIVE re_sub_newlines(_)
re_sub_newlines(s) ==
    IF s = <<>> THEN <<>>
    ELSE LET n == RunOfNewlines(s, 1)
         IN  IF n >= 3 THEN <<NL, NL>> \o re_sub_newlines(SubSeq(s, n + 1, Len(s)))
             ELSE IF n > 0 THEN SubSeq(s, 1, n) \o re_sub_newlines(SubSeq(s, n + 1, Len(s)))
             ELSE <<Head(s)>> \o re_sub_newlines(Tail(s))

clean_body_text_raises_unguarded(b) == b.type # "str"

\* the call clean_body_text(b) raises: re.split (line 9) takes a str only, and
\* is reached when line 5 finds b truthy
clean_body_text_raises(b) == IF ~Truthy(b) THEN FALSE ELSE b.type # "str"

clean_body_text_strip_first(b) ==
    IF ~Truthy(b) THEN <<>>
    ELSE re_sub_newlines(
           for_pattern_in(patterns, re_split_0(P_NEED_HELP, strip(b.v))))

clean_body_text(b) ==
    IF ~Truthy(b) THEN <<>>
    ELSE re_sub_newlines(
           strip(for_pattern_in(patterns, re_split_0(P_NEED_HELP, b.v))))

----------------------------------------------------------------------------
(* get_outlook_events: the window *)

\* datetime.replace(hour=0, minute=0, second=0, microsecond=0)
replace_midnight(d) ==
    [d EXCEPT !.hour = 0, !.minute = 0, !.second = 0, !.microsecond = 0]

\* datetime + timedelta(days=n)
plus_days(d, n) == [d EXCEPT !.day = d.day + n]

get_window_swapped(t, back, forward) ==
    LET today == replace_midnight(t)
    IN  [start_date |-> plus_days(today, -forward),
         end_date   |-> plus_days(today, back)]

\* lines 74-76 of get_outlook_events
get_window(t, back, forward) ==
    LET today == replace_midnight(t)
    IN  [start_date |-> plus_days(today, -back),
         end_date   |-> plus_days(today, forward)]

----------------------------------------------------------------------------
(* OutlookCalendarFetcher *)

\* a COM object
Obj == [type |-> "CDispatch"]

\* the step of a connection attempt that raises ("none": no step does)
ConnectFailures == {"none", "CoInitialize", "Dispatch", "GetNamespace", "GetDefaultFolder"}

\* the fields a connection attempt (lines 17-21, lines 30-33) leaves behind,
\* starting from fields `self`, when step `fail` raises
connect(self, fail) ==
    [outlook   |-> IF fail \in {"CoInitialize", "Dispatch"} THEN self.outlook ELSE Obj,
     namespace |-> IF fail \in {"CoInitialize", "Dispatch", "GetNamespace"}
                   THEN self.namespace ELSE Obj,
     calendar  |-> IF fail = "none" THEN Obj ELSE self.calendar]

\* __init__
fetcher_init(fail) ==
    connect([outlook |-> None, namespace |-> None, calendar |-> None], fail)

\* all([self.outlook, self.namespace, self.calendar])
all_connected(self) ==
    Truthy(self.outlook) /\ Truthy(self.namespace) /\ Truthy(self.calendar)

\* the ways the re-initialisation of lines 29-33 can go: it runs only when
\* a field is unset
ReinitFailures(self) == IF all_connected(self) THEN {"none"} ELSE ConnectFailures

fetch_events_unguarded(self, refail, raises, src) ==
    LET reinit == ~all_connected(self)
        after  == IF reinit THEN connect(self, refail) ELSE self
    IN  IF reinit /\ refail # "none"
        THEN [self |-> after, ret |-> <<>>, log |-> "reinit_failed", exc |-> FALSE]
        ELSE IF raises
        THEN [self |-> after, ret |-> <<>>, log |-> "fetch_raised", exc |-> TRUE]
        ELSE [self |-> after, ret |-> src, log |-> "ok", exc |-> FALSE]

\* fetch_events(start_date, end_date) on fetcher `self`; `refail` is the step of
\* the re-initialisation that raises, `raises` whether the try block of line 38
\* raises, `src` what Restrict yields.  exc: an exception leaves the method
fetch_events(self, refail, raises, src) ==
    LET reinit == ~all_connected(self)
        after  == IF reinit THEN connect(self, refail) ELSE self
    IN  IF reinit /\ refail # "none"
        THEN [self |-> after, ret |-> <<>>, log |-> "reinit_failed", exc |-> FALSE]
        ELSE IF raises
        THEN [self |-> after, ret |-> <<>>, log |-> "fetch_raised", exc |-> FALSE]
        ELSE [self |-> after, ret |-> src, log |-> "ok", exc |-> FALSE]

----------------------------------------------------------------------------
(* main(): one raw event *)

\* "OOO" in cats, for strings as sequences of characters
str_contains_OOO(cats) ==
    \E i \in 1..(Len(cats) - 2) :
        cats[i] = "O" /\ cats[i + 1] = "O" /\ cats[i + 2] = "O"

\* any access to attribute a, hasattr included, raises (no AttributeError)
Raises(item, a) == a \in item.raising

\* hasattr(item, a), when it returns
hasattr(item, a) == a \notin item.missing

\* reading item.a raises
GetFails(item, a) == Raises(item, a) \/ ~hasattr(item, a)

\* datetime(x.year, x.month, x.day, x.hour, x.minute, x.second)
to_datetime(x) == Dt(<<x.v[1], 0>>)

\* the dictionary of lines 179-193
make_event(item) ==
    [Subject    |-> IF hasattr(item, "Subject") THEN item.Subject
                    ELSE Str(<<"Untitled Event">>),
     Start      |-> IF hasattr(item, "Start") /\ Truthy(item.Start)
                    THEN to_datetime(item.Start) ELSE None,
     End        |-> IF hasattr(item, "End") /\ Truthy(item.End)
                    THEN to_datetime(item.End) ELSE None,
     Location   |-> IF hasattr(item, "Location") THEN item.Location ELSE Str(<<>>),
     Body       |-> IF hasattr(item, "Body") THEN Str(clean_body_text(item.Body))
                    ELSE Str(<<>>),
     Categories |-> IF hasattr(item, "Categories") THEN item.Categories ELSE Str(<<>>)]

NoEvent == [Subject |-> None, Start |-> None, End |-> None, Location |-> None,
            Body |-> None, Categories |-> None]

Outcome(o, e) == [outcome |-> o, event |-> e]

\* line 173, when no access raises
dates_missing(item) ==
    \/ ~hasattr(item, "Start")
    \/ ~hasattr(item, "End")
    \/ ~Truthy(item.Start)
    \/ ~Truthy(item.End)

\* line 173 raises: each operand is evaluated only when those before it are false
dates_check_raises(item) ==
    \/ Raises(item, "Start")
    \/ hasattr(item, "Start") /\ Raises(item, "End")

process_item_no_ooo_check(item) ==
    IF dates_check_raises(item) THEN Outcome("error", NoEvent)
    ELSE IF dates_missing(item)
    THEN IF Raises(item, "Subject") THEN Outcome("error", NoEvent)
         ELSE Outcome("skipped_dates", NoEvent)
    ELSE IF GetFails(item, "Subject") THEN Outcome("error", NoEvent)
    ELSE IF \E a \in {"Location", "Body", "Categories"} : Raises(item, a)
    THEN Outcome("error", NoEvent)
    ELSE Outcome("appended", make_event(item))

process_item_no_dates_check(item) ==
    IF Raises(item, "Categories") THEN Outcome("error", NoEvent)
    ELSE IF /\ hasattr(item, "Categories")
            /\ Truthy(item.Categories)
            /\ str_contains_OOO(item.Categories.v)
    THEN IF GetFails(item, "Subject") THEN Outcome("error", NoEvent)
         ELSE Outcome("skipped_ooo", NoEvent)
    ELSE IF GetFails(item, "Subject") THEN Outcome("error", NoEvent)
    ELSE IF \E a \in {"Start", "End", "Location", "Body"} : Raises(item, a)
    THEN Outcome("error", NoEvent)
    ELSE Outcome("appended", make_event(item))

\* the body of the for loop, lines 166-197, for one item
process_item(item) ==
    \* line 168
    IF Raises(item, "Categories") THEN Outcome("error", NoEvent)
    ELSE IF /\ hasattr(item, "Categories")
            /\ Truthy(item.Categories)
            /\ str_contains_OOO(item.Categories.v)
    \* line 169
    THEN IF GetFails(item, "Subject") THEN Outcome("error", NoEvent)
         ELSE Outcome("skipped_ooo", NoEvent)
    \* line 173
    ELSE IF dates_check_raises(item) THEN Outcome("error", NoEvent)
    ELSE IF dates_missing(item)
    \* line 174
    THEN IF Raises(item, "Subject") THEN Outcome("error", NoEvent)
         ELSE Outcome("skipped_dates", NoEvent)
    \* line 177
    ELSE IF GetFails(item, "Subject") THEN Outcome("error", NoEvent)
    \* lines 179-193
    ELSE IF \E a \in {"Location", "Body"} : Raises(item, a)
    THEN Outcome("error", NoEvent)
    ELSE Outcome("appended", make_event(item))

\* the state of the loop of line 165 after one more item
loop_turn_aborting(st, item) ==
    LET r == process_item(item)
    IN  [events  |-> IF r.outcome = "appended" THEN Append(st.events, r.event)
                     ELSE st.events,
         handled |-> Append(st.handled, r.outcome),
         idx     |-> st.idx + 1,
         raised  |-> r.outcome = "error"]

\* one turn of the for loop: the try of line 166, the append of line 194 and
\* the except/continue of lines 195-197
loop_turn(st, item) ==
    LET r == process_item(item)
    IN  [events  |-> IF r.outcome = "appended" THEN Append(st.events, r.event)
                     ELSE st.events,
         handled |-> Append(st.handled, r.outcome),
         idx     |-> st.idx + 1,
         raised  |-> FALSE]

----------------------------------------------------------------------------
(* Inputs *)

MaxLen   == 3     \* lexemes in a body given to clean_body_text
MaxItems == 3     \* raw events in the window
MaxDays  == 2     \* days_back, days_forward

\* the body of the scenario "Let's meet."
TeamsInvite ==
    <<"Let's meet.", NL, NL, JMT, NL, "More info |", SP, NH, SP, URL, "en-US", GT>>

\* the body of the scenario "Agenda here"
BlankLines == <<"Agenda here", NL, NL, NL, NL, NL, "Notes">>

\* a body as Outlook stores it, with \r\n line ends
CrLfBody == <<T, CR, NL, CR, NL, CR, NL, T>>

\* a body in which every one of the six patterns has a match
AllFooters ==
    <<T, SP, NL, JMT, SP, JV, NL, CJ, U15, U1, MT, CR, NL, JC, NH, URL, T, GT, NL>>

\* a body with blank lines and a meeting line inside its help block
HelpThenJoin == <<T, SP, NH, NL, NL, NL, T, NL, JMT, SP, URL, GT>>

RECURSIVE SeqsUpTo(_, _)
SeqsUpTo(S, n) ==
    IF n = 0 THEN {<<>>}
    ELSE LET shorter == SeqsUpTo(S, n - 1)
         IN  shorter \cup {Append(q, x) : q \in {r \in shorter : Len(r) = n - 1}, x \in S}

LongBodies == {TeamsInvite, BlankLines, CrLfBody, AllFooters, HelpThenJoin}

Bodies ==
    {None} \cup {Str(t) : t \in SeqsUpTo(Lexemes, MaxLen) \cup LongBodies}

\* Categories of an appointment: a string, the category names joined by ", "
CatsOOO     == <<"O", "O", "O">>
CatsLonger  == <<"N", "O", "O", "O", "P">>
CatsListed  == <<"A", ",", " ", "O", "O", "O">>
CatsLower   == <<"o", "o", "o">>

\* a meeting with every field set and no category
PlainEvent ==
    [Categories |-> Str(<<>>),
     Start      |-> Dt(<<10, 5>>),
     End        |-> Dt(<<11, 0>>),
     Subject    |-> Str(<<"Standup">>),
     Location   |-> Str(<<"Room">>),
     Body       |-> Str(<<T>>),
     missing    |-> {},
     raising    |-> {}]

OOOEvent == [PlainEvent EXCEPT !.Categories = Str(CatsOOO)]

\* e, and e with one of its date, subject or body fields absent, null or unreadable
Variants(e) ==
    {e}
    \cup {[e EXCEPT !.missing = {a}] : a \in {"Start", "End", "Subject", "Body"}}
    \cup {[e EXCEPT !.Start = None], [e EXCEPT !.End = None]}
    \cup {[e EXCEPT !.raising = {"Body"}]}

\* an out-of-office entry, and some with another field absent, null or unreadable
OOOVariants ==
    {OOOEvent,
     [OOOEvent EXCEPT !.missing = {"Start"}],
     [OOOEvent EXCEPT !.missing = {"Subject"}],
     [OOOEvent EXCEPT !.raising = {"Body"}]}

RawEvents ==
    Variants(PlainEvent) \cup OOOVariants
    \cup {[PlainEvent EXCEPT !.Categories = Str(c)] : c \in {CatsLonger, CatsListed, CatsLower}}
    \cup {[PlainEvent EXCEPT !.missing = {"Categories"}]}
    \cup {[PlainEvent EXCEPT !.Body = Str(TeamsInvite)]}

Sources == SeqsUpTo(RawEvents, MaxItems)

Midnight == [day |-> 739000, hour |-> 0, minute |-> 0, second |-> 0, microsecond |-> 0]

Nows ==
    {[day |-> d, hour |-> h, minute |-> m, second |-> m, microsecond |-> u] :
        d \in {739000, 739001}, h \in {0, 9, 23}, m \in {0, 59}, u \in {0, 999999}}

----------------------------------------------------------------------------
(* States that a specification leaves alone *)

CleanIdle ==
    /\ body = None /\ cleaned = <<>> /\ recleaned = <<>> /\ craised = FALSE
    /\ cpc = "idle"

WindowIdle ==
    /\ now = Midnight /\ days_back = 1 /\ days_forward = 1
    /\ start_date = Midnight /\ end_date = Midnight /\ wpc = "idle"

MainIdle ==
    /\ pc = "idle"
    /\ outlook = None /\ namespace = None /\ calendar = None
    /\ source = <<>> /\ filtered_items = <<>> /\ idx = 0
    /\ events = <<>> /\ handled = <<>>
    /\ fetch_log = "none" /\ propagated = FALSE /\ trace = <<>>

SyncIdle ==
    /\ retries = 0 /\ timeout = 0 /\ attempt = 0
    /\ outcomes = <<>> /\ slept = <<>> /\ sync_ret = None /\ spc = "idle"

ExportIdle == export_json = FALSE /\ exported = "none" /\ summary = None

JsonIdle ==
    /\ events_df = <<>> /\ export_data = None /\ export_raised = FALSE
    /\ xpc = "idle"

ComIdle ==
    /\ caller = "main" /\ com_inits = 0 /\ com_uninits = 0
    /\ fetcher_alive = FALSE /\ fpc = "idle"

ViewIdle == view_ret = None /\ vpc = "idle"

RestIdle == SyncIdle /\ ExportIdle /\ JsonIdle /\ ComIdle /\ ViewIdle

----------------------------------------------------------------------------
(* SpecClean: clean_body_text on one body, then on its own result *)

InitClean ==
    /\ body \in Bodies /\ cleaned = <<>> /\ recleaned = <<>> /\ craised = FALSE
    /\ cpc = "input"
    /\ WindowIdle /\ MainIdle /\ RestIdle

Clean ==
    /\ cpc = "input"
    /\ craised' = clean_body_text_raises(body)
    /\ cleaned' = IF craised' THEN <<>> ELSE clean_body_text(body)
    /\ cpc' = IF craised' THEN "raised" ELSE "cleaned"
    /\ UNCHANGED <<body, recleaned, windowVars, mainVars, restVars>>

CleanAgain ==
    /\ cpc = "cleaned"
    /\ craised' = clean_body_text_raises(Str(cleaned))
    /\ recleaned' = IF craised' THEN <<>> ELSE clean_body_text(Str(cleaned))
    /\ cpc' = IF craised' THEN "raised" ELSE "recleaned"
    /\ UNCHANGED <<body, cleaned, windowVars, mainVars, restVars>>

NextClean == Clean \/ CleanAgain

SpecClean == InitClean /\ [][NextClean]_vars

----------------------------------------------------------------------------
(* SpecWindow: the window of get_outlook_events *)

InitWindow ==
    /\ now \in Nows
    /\ days_back \in 0..MaxDays /\ days_forward \in 0..MaxDays
    /\ start_date = Midnight /\ end_date = Midnight /\ wpc = "args"
    /\ CleanIdle /\ MainIdle /\ RestIdle

Resolve ==
    /\ wpc = "args"
    /\ LET w == get_window(now, days_back, days_forward)
       IN  start_date' = w.start_date /\ end_date' = w.end_date
    /\ wpc' = "resolved"
    /\ UNCHANGED <<now, days_back, days_forward, cleanVars, mainVars, restVars>>

NextWindow == Resolve

SpecWindow == InitWindow /\ [][NextWindow]_vars

----------------------------------------------------------------------------
(* Spec: one run of main() *)

Init ==
    /\ pc = "new_fetcher"
    /\ outlook = None /\ namespace = None /\ calendar = None
    /\ source = <<>>
    /\ filtered_items = <<>> /\ idx = 0 /\ events = <<>> /\ handled = <<>>
    /\ fetch_log = "none" /\ propagated = FALSE
    /\ trace = <<"sync_outlook">>
    /\ now \in {[Midnight EXCEPT !.hour = 9]}
    /\ days_back = 1 /\ days_forward = 1
    /\ start_date = Midnight /\ end_date = Midnight /\ wpc = "args"
    /\ CleanIdle /\ RestIdle

\* line 147: fetcher = OutlookCalendarFetcher()
NewFetcher ==
    /\ pc = "new_fetcher"
    /\ \E fail \in ConnectFailures :
         LET self == fetcher_init(fail)
         IN  /\ outlook' = self.outlook
             /\ namespace' = self.namespace
             /\ calendar' = self.calendar
    /\ trace' = Append(trace, "OutlookCalendarFetcher")
    /\ pc' = "get_events"
    /\ UNCHANGED <<source, filtered_items, idx, events, handled, fetch_log, propagated,
                   cleanVars, windowVars, restVars>>

\* lines 151-154: filtered_items = fetcher.get_outlook_events(days_back, days_forward)
GetOutlookEventsFrom(S) ==
    /\ pc = "get_events"
    /\ \E refail \in ReinitFailures([outlook |-> outlook, namespace |-> namespace,
                                        calendar |-> calendar]),
          raises \in BOOLEAN :
       \E src \in IF refail = "none" /\ ~raises THEN S ELSE {<<>>} :
         LET w == get_window(now, days_back, days_forward)
             r == fetch_events([outlook |-> outlook, namespace |-> namespace,
                                calendar |-> calendar], refail, raises, src)
         IN  /\ start_date' = w.start_date /\ end_date' = w.end_date
             /\ wpc' = "resolved"
             /\ outlook' = r.self.outlook
             /\ namespace' = r.self.namespace
             /\ calendar' = r.self.calendar
             /\ source' = src
             /\ filtered_items' = r.ret
             /\ fetch_log' = r.log
             /\ propagated' = r.exc
             /\ pc' = IF r.exc THEN "crashed" ELSE "loop"
    /\ trace' = Append(trace, "get_outlook_events")
    /\ UNCHANGED <<idx, events, handled, now, days_back, days_forward, cleanVars,
                   restVars>>

GetOutlookEvents == GetOutlookEventsFrom(Sources)

\* lines 165-197: one item of filtered_items
ProcessItem ==
    /\ pc = "loop"
    /\ idx < Len(filtered_items)
    /\ LET st == loop_turn([events |-> events, handled |-> handled, idx |-> idx],
                           filtered_items[idx + 1])
       IN  /\ events' = st.events
           /\ handled' = st.handled
           /\ idx' = st.idx
           /\ propagated' = st.raised
           /\ pc' = IF st.raised THEN "crashed" ELSE "loop"
    /\ UNCHANGED <<outlook, namespace, calendar, source, filtered_items, fetch_log, trace,
                   cleanVars, windowVars, restVars>>

\* line 199: the loop is over
Retrieved ==
    /\ pc = "loop"
    /\ idx = Len(filtered_items)
    /\ pc' = "done"
    /\ UNCHANGED <<outlook, namespace, calendar, source, filtered_items, idx, events,
                   handled, fetch_log, propagated, trace, cleanVars, windowVars,
                   restVars>>

Next == NewFetcher \/ GetOutlookEvents \/ ProcessItem \/ Retrieved

Spec == Init /\ [][Next]_vars

----------------------------------------------------------------------------
(* Vocabulary of the properties *)

\* the items the loop has consumed
Consumed == 1..Len(handled)

\* number of "appended" among the first k entries of the log
RECURSIVE Appended(_)
Appended(k) ==
    IF k = 0 THEN 0
    ELSE Appended(k - 1) + (IF handled[k] = "appended" THEN 1 ELSE 0)

\* the output event made from consumed item k, when it was appended
EventOf(k) == events[Appended(k)]

\* every attribute of the item can be read without an error other than absence
Readable(item) == item.raising = {}

\* the item has a start and an end, neither null
HasDates(item) ==
    /\ "Start" \notin item.missing /\ item.Start # None
    /\ "End" \notin item.missing /\ item.End # None

\* the category names of a Categories string: its pieces between commas,
\* without the blanks around them
CategoryNames(c) ==
    LET IsName(i, j) ==
            /\ i <= j
            /\ \A k \in i..j : c[k] \notin {",", " "}
            /\ (i = 1 \/ c[i - 1] \in {",", " "})
            /\ (j = Len(c) \/ c[j + 1] \in {",", " "})
    IN  {SubSeq(c, i, j) : <<i, j>> \in {ij \in (1..Len(c)) \X (1..Len(c)) : IsName(ij[1], ij[2])}}

\* one of the item's categories is exactly "OOO"
HasOOOCategory(item) ==
    /\ "Categories" \notin item.missing
    /\ item.Categories # None
    /\ <<"O", "O", "O">> \in CategoryNames(item.Categories.v)

\* "OOO" occurs somewhere in the item's Categories string
MentionsOOO(item) ==
    /\ "Categories" \notin item.missing
    /\ item.Categories # None
    /\ \E i \in 1..(Len(item.Categories.v) - 2) :
         SubSeq(item.Categories.v, i, i + 2) = <<"O", "O", "O">>

----------------------------------------------------------------------------
(* C1..C7: the event loop and the fetch of main(), under Spec *)

\* C1: every consumed raw event one of whose categories is "OOO" is dropped,
\* whatever its other fields; no output event carries the category "OOO".
C1_OOODropped ==
    /\ \A k \in Consumed :
         HasOOOCategory(filtered_items[k]) => handled[k] \in {"skipped_ooo", "error"}
    /\ \A n \in 1..Len(events) :
         <<"O", "O", "O">> \notin CategoryNames(events[n].Categories.v)

\* an out-of-office entry without start and one without subject were consumed
C1_Witness ==
    /\ pc = "done"
    /\ \E k \in Consumed :
         /\ HasOOOCategory(filtered_items[k])
         /\ "Start" \in filtered_items[k].missing
         /\ handled[k] = "skipped_ooo"
    /\ \E k \in Consumed :
         /\ HasOOOCategory(filtered_items[k])
         /\ "Subject" \in filtered_items[k].missing
         /\ handled[k] = "error"

\* C2: every consumed raw event whose start or end is absent or null is
\* dropped, also with empty categories; no output event has a null Start or End.
C2_MissingDatesDropped ==
    /\ \A k \in Consumed :
         ~HasDates(filtered_items[k]) => handled[k] # "appended"
    /\ \A n \in 1..Len(events) : events[n].Start # None /\ events[n].End # None

\* an event with empty categories and a null end was skipped for its dates
C2_Witness ==
    \E k \in Consumed :
        /\ filtered_items[k].Categories = Str(<<>>)
        /\ filtered_items[k].End = None
        /\ "Start" \notin filtered_items[k].missing
        /\ handled[k] = "skipped_dates"

\* C3: every readable raw event with start and end and no OOO category (here:
\* no "OOO" anywhere in its categories) yields an output event whose Subject is
\* the raw subject, or "Untitled Event" when the subject is absent, and whose
\* Body is clean_body_text(raw body), or "" when the body is absent.
C3_ValidEventNormalized ==
    \A k \in Consumed :
        LET item == filtered_items[k]
        IN  (Readable(item) /\ HasDates(item) /\ ~MentionsOOO(item)) =>
               /\ handled[k] = "appended"
               /\ EventOf(k).Subject =
                     (IF "Subject" \in item.missing THEN Str(<<"Untitled Event">>)
                      ELSE item.Subject)
               /\ EventOf(k).Body =
                     (IF "Body" \in item.missing THEN Str(<<>>)
                      ELSE Str(clean_body_text(item.Body)))

\* C4: an event is skipped as out-of-office only when one of its categories is
\* exactly "OOO"; a readable event with dates and subject whose categories have
\* no name "OOO" is retained.
C4_ExactCategoryMatch ==
    \A k \in Consumed :
        LET item == filtered_items[k]
        IN  /\ handled[k] = "skipped_ooo" => HasOOOCategory(item)
            /\ (/\ Readable(item) /\ HasDates(item)
                /\ "Subject" \notin item.missing
                /\ ~HasOOOCategory(item)) => handled[k] = "appended"

\* C5: an error raised while one raw event is read drops that event only: no
\* exception leaves the loop, the events retained so far are the events of the
\* appended items in order, and the run ends with every item consumed.
C5_ErrorIsolated ==
    /\ pc # "crashed" /\ ~propagated
    /\ idx = Len(handled)
    /\ Len(events) = Appended(Len(handled))
    /\ \A k \in Consumed :
         handled[k] = "appended" => EventOf(k) = make_event(filtered_items[k])
    /\ \A k \in Consumed :
         Raises(filtered_items[k], "Body") => handled[k] # "appended"
    /\ pc = "done" => Len(handled) = Len(filtered_items)

\* an unreadable event between two retained ones
C5_Witness ==
    /\ pc = "done"
    /\ handled = <<"appended", "error", "appended">>
    /\ Len(events) = 2

\* C6: at the end of the run the retained events are exactly the readable raw
\* events with no OOO category and with start and end, in fetched order.
C6_ExactSubsequence ==
    pc = "done" =>
        /\ Len(events) = Appended(Len(handled))
        /\ \A k \in Consumed :
             Readable(filtered_items[k]) =>
                (handled[k] = "appended" <=>
                    (~HasOOOCategory(filtered_items[k]) /\ HasDates(filtered_items[k])))

\* C7: when the connection fails in the constructor and on re-initialisation,
\* or the fetch raises, get_outlook_events returns an empty sequence, no
\* exception leaves it, and the run ends with zero events.
C7_SourceUnavailable ==
    /\ ~propagated /\ pc # "crashed"
    /\ fetch_log \in {"reinit_failed", "fetch_raised"} =>
         /\ filtered_items = <<>>
         /\ events = <<>>
         /\ pc \in {"loop", "done"}

\* the constructor and the re-initialisation both failed and the run is over
C7_Witness ==
    /\ pc = "done"
    /\ fetch_log = "reinit_failed"
    /\ ~Truthy(calendar)
    /\ filtered_items = <<>> /\ events = <<>>

----------------------------------------------------------------------------
(* C8: the window, under SpecWindow *)

\* midnight of the day of t
MidnightOf(t) ==
    [day |-> t.day, hour |-> 0, minute |-> 0, second |-> 0, microsecond |-> 0]

\* b - a in whole days, for two datetimes at the same time of day
DaysBetween(a, b) == b.day - a.day

SameTimeOfDay(a, b) ==
    /\ a.hour = b.hour /\ a.minute = b.minute
    /\ a.second = b.second /\ a.microsecond = b.microsecond

\* C8: start = midnight(now) - days_back days, end = midnight(now) +
\* days_forward days, so end - start is days_back + days_forward days, and for
\* (0, 0) start = end = midnight(now).
C8_Window ==
    wpc = "resolved" =>
        /\ SameTimeOfDay(start_date, MidnightOf(now))
        /\ SameTimeOfDay(end_date, MidnightOf(now))
        /\ DaysBetween(start_date, MidnightOf(now)) = days_back
        /\ DaysBetween(MidnightOf(now), end_date) = days_forward
        /\ DaysBetween(start_date, end_date) = days_back + days_forward
        /\ (days_back = 0 /\ days_forward = 0) =>
              (start_date = MidnightOf(now) /\ end_date = MidnightOf(now))

\* a window of unequal offsets resolved late in the day
C8_Witness ==
    /\ wpc = "resolved"
    /\ days_back = 2 /\ days_forward = 1
    /\ now.hour = 23 /\ now.microsecond = 999999
    /\ start_date.day = now.day - 2 /\ end_date.day = now.day + 1

----------------------------------------------------------------------------
(* C9, C10: clean_body_text, under SpecClean *)

\* C9: clean_body_text(clean_body_text(s)) = clean_body_text(s).
C9_Idempotent == cpc = "recleaned" => recleaned = cleaned

\* a body that lost a footer and white space was cleaned twice
C9_Witness ==
    /\ cpc = "recleaned"
    /\ Truthy(body)
    /\ cleaned # <<>>
    /\ Len(cleaned) < Len(body.v) - 1
    /\ recleaned = cleaned

\* the six rules in the order of the claim
RuleOrder ==
    <<P_NEED_HELP, P_TEAMS, P_UNDERSCORES, P_CLICK_HERE, P_JOIN_VIDEO, P_JOIN_TEAMS>>

\* r is the text of s before the first match of p (s itself when p has no match)
KeepsBeforeFirstMatch(p, s, r) ==
    \/ /\ \A i \in 1..Len(s) : ~MatchesAt(p, s, i)
       /\ r = s
    \/ \E i \in 1..Len(s) :
         /\ MatchesAt(p, s, i)
         /\ \A k \in 1..(i - 1) : ~MatchesAt(p, s, k)
         /\ r = SubSeq(s, 1, i - 1) \o BeforeMatch(p, s[i])

\* the texts s can be cut to
Cuts(s) ==
    {SubSeq(s, 1, n) : n \in 0..Len(s)}
    \cup {Append(SubSeq(s, 1, n), JOIN_SP) : n \in 0..Len(s)}

\* s after the rules rs, each keeping the text before its first match
RECURSIVE AfterRules(_, _)
AfterRules(rs, s) ==
    IF rs = <<>> THEN s
    ELSE AfterRules(Tail(rs),
                    CHOOSE r \in Cuts(s) : KeepsBeforeFirstMatch(Head(rs), s, r))

\* C10: the cleaned text is what the six rules leave, applied in the fixed
\* order, each keeping the text before the first match of its pattern in the
\* output of the rule before it, then stripped and with blank lines collapsed;
\* the Teams invitation "Let's meet. ..." is cleaned to "Let's meet.".
C10_OrderedTruncation ==
    (cpc # "input" /\ Truthy(body)) =>
        /\ cleaned = re_sub_newlines(strip(AfterRules(RuleOrder, body.v)))
        /\ body = Str(TeamsInvite) => cleaned = <<"Let's meet.">>

\* the Teams invitation was cleaned to its first line
C10_Witness ==
    /\ cpc = "cleaned"
    /\ body = Str(TeamsInvite)
    /\ cleaned = <<"Let's meet.">>

----------------------------------------------------------------------------
(* C11, C12: clean_body_text, under SpecClean *)

\* a line break starts at lexeme i of s: "\n", or "\r\n"
BreakLen(s, i) ==
    IF s[i] = NL THEN 1
    ELSE IF s[i] = CR /\ i < Len(s) /\ s[i + 1] = NL THEN 2
    ELSE 0

\* number of consecutive line breaks of s from lexeme i on
RECURSIVE RunOfBreaks(_, _)
RunOfBreaks(s, i) ==
    IF i > Len(s) \/ BreakLen(s, i) = 0 THEN 0
    ELSE 1 + RunOfBreaks(s, i + BreakLen(s, i))

\* the first or the last character of s is white space
EdgeSpace(s) ==
    s # <<>> /\ (s[1] \in {SP, NL, CR, JOIN_SP} \/ s[Len(s)] \in {SP, NL, CR, JOIN_SP})

\* C11: the cleaned text has no run of three or more consecutive line breaks
\* (\n or \r\n) and no white space at its ends.
C11_NoBlankRuns ==
    cpc # "input" =>
        /\ \A i \in 1..Len(cleaned) : RunOfBreaks(cleaned, i) < 3
        /\ ~EdgeSpace(cleaned)

\* C12: clean_body_text never raises, and returns "" for "" and for None.
C12_Total ==
    /\ ~craised /\ cpc # "raised"
    /\ (cpc # "input" /\ body \in {None, Str(<<>>)}) => cleaned = <<>>

\* None was cleaned to the empty string
C12_Witness == cpc = "cleaned" /\ body = None /\ cleaned = <<>> /\ ~craised

----------------------------------------------------------------------------
(* sync_outlook (main.py) *)

MaxRetries == 4

\* values of --sync-retries, among them 0 and a negative one
RetriesArgs == -1..MaxRetries

\* values of --sync-timeout, in seconds
TimeoutArgs == {1, 10}

\* how the body of the try of one attempt ends: it reaches return True, or
\* it raises before or after time.sleep(timeout)
SyncOutcomes == {"ok", "raised_before_wait", "raised_after_wait"}

\* line 123
wait_time(a) == a * 2

\* the sleeps of one attempt that slept for the synchronization to complete
after_sync_wait(sl, t, outcome) ==
    IF outcome = "raised_before_wait" THEN sl
    ELSE Append(sl, [why |-> "sync", secs |-> t])

\* one turn of the loop that also waits after the last failed attempt
sync_attempt_always_waits(st, r, t, outcome) ==
    LET a  == st.attempt + 1
        sl == after_sync_wait(st.slept, t, outcome)
    IN  IF outcome = "ok"
        THEN [attempt |-> a, slept |-> sl, ret |-> Bool(TRUE), returned |-> TRUE]
        ELSE [attempt |-> a,
              slept |-> Append(sl, [why |-> "retry", secs |-> wait_time(a)]),
              ret |-> IF a < r THEN st.ret ELSE Bool(FALSE),
              returned |-> ~(a < r)]

\* lines 55-128: one turn of the loop, attempt st.attempt + 1 of r
sync_attempt(st, r, t, outcome) ==
    LET a  == st.attempt + 1
        sl == after_sync_wait(st.slept, t, outcome)
    IN  IF outcome = "ok"
        THEN [attempt |-> a, slept |-> sl, ret |-> Bool(TRUE), returned |-> TRUE]
        ELSE IF a < r
        THEN [attempt |-> a,
              slept |-> Append(sl, [why |-> "retry", secs |-> wait_time(a)]),
              ret |-> st.ret, returned |-> FALSE]
        ELSE [attempt |-> a, slept |-> sl, ret |-> Bool(FALSE), returned |-> TRUE]

----------------------------------------------------------------------------
(* SpecSync: one call of sync_outlook *)

InitSync ==
    /\ retries \in RetriesArgs /\ timeout \in TimeoutArgs
    /\ attempt = 0 /\ outcomes = <<>> /\ slept = <<>>
    /\ sync_ret = None /\ spc = "loop"
    /\ CleanIdle /\ WindowIdle /\ MainIdle /\ ExportIdle /\ JsonIdle /\ ComIdle
    /\ ViewIdle

\* lines 54-128: the next value of range(1, retries + 1) and the loop body
SyncAttempt ==
    /\ spc = "loop"
    /\ attempt + 1 <= retries
    /\ \E outcome \in SyncOutcomes :
         LET st == sync_attempt([attempt |-> attempt, slept |-> slept,
                                 ret |-> sync_ret], retries, timeout, outcome)
         IN  /\ attempt' = st.attempt
             /\ slept' = st.slept
             /\ sync_ret' = st.ret
             /\ outcomes' = Append(outcomes, outcome)
             /\ spc' = IF st.returned THEN "returned" ELSE "loop"
    /\ UNCHANGED <<retries, timeout, cleanVars, windowVars, mainVars, exportVars, jsonVars,
                   comVars, viewVars>>

\* line 54 with range(1, retries + 1) exhausted: the function ends without a
\* return statement, which returns None
SyncFallsOff ==
    /\ spc = "loop"
    /\ ~(attempt + 1 <= retries)
    /\ sync_ret' = None
    /\ spc' = "returned"
    /\ UNCHANGED <<retries, timeout, attempt, outcomes, slept,
                   cleanVars, windowVars, mainVars, exportVars, jsonVars,
                   comVars, viewVars>>

NextSync == SyncAttempt \/ SyncFallsOff

SpecSync == InitSync /\ [][NextSync]_vars

----------------------------------------------------------------------------
(* C13, C14: sync_outlook, under SpecSync *)

\* the waits before a retry, in order
RetryWaits == SelectSeq(slept, LAMBDA s : s.why = "retry")

\* the failed attempts that had an attempt after them to wait for
FailedBeforeLast == {k \in 1..Len(outcomes) : outcomes[k] # "ok" /\ k < retries}

\* C13: sync_outlook makes at most `retries` attempts, makes no attempt after
\* one that succeeded, waits attempt x 2 seconds after each failed attempt
\* that has a next one, each wait longer than the one before, and does not
\* wait after the last failed attempt.
C13_BoundedBackoff ==
    /\ attempt = Len(outcomes)
    /\ attempt <= (IF retries > 0 THEN retries ELSE 0)
    /\ \A k \in 1..Len(outcomes) :
         outcomes[k] = "ok" => k = Len(outcomes) /\ spc = "returned"
    /\ Len(RetryWaits) = Cardinality(FailedBeforeLast)
    /\ \A k \in 1..Len(RetryWaits) : RetryWaits[k].secs = k * 2
    /\ \A k \in 2..Len(RetryWaits) : RetryWaits[k].secs > RetryWaits[k - 1].secs
    /\ (spc = "returned" /\ sync_ret = Bool(FALSE)) =>
         attempt = retries /\ Len(RetryWaits) = retries - 1

C13_Witness ==
    /\ spc = "returned" /\ sync_ret = Bool(FALSE)
    /\ retries = 3 /\ attempt = 3 /\ outcomes[3] = "raised_after_wait"
    /\ Len(RetryWaits) = 2

\* C14: whatever retries is, sync_outlook returns a boolean, True exactly
\* when some attempt ended successfully.
C14_ReturnsBool ==
    spc = "returned" =>
        /\ sync_ret.type = "bool"
        /\ sync_ret.v <=> (\E k \in 1..Len(outcomes) : outcomes[k] = "ok")

----------------------------------------------------------------------------
(* main(): synchronization, fetch, loop, export, summary *)

\* lines 143-147 ending the run when the synchronization failed
after_sync_abort_on_failure(ret) ==
    [warned |-> ~Truthy(ret), next |-> IF Truthy(ret) THEN "new_fetcher" ELSE "done"]

\* lines 143-147: a warning when sync_outlook returned something false, and
\* the fetcher is constructed next in both cases
after_sync(ret) == [warned |-> ~Truthy(ret), next |-> "new_fetcher"]

\* what can fail in the export: os.makedirs in JsonExporter.__init__, the
\* conversion of a row in export_events, the writing of the file
ExportFailures == {"none", "makedirs", "rows", "write"}

\* lines 202-215. JsonExporter(...) of line 210 stands before the try of
\* line 211 and raises RuntimeError when os.makedirs fails (json_exporter.py
\* line 44); export_events skips a row it cannot convert (line 139) and
\* raises RuntimeError when the file cannot be written (lines 165-172),
\* which line 214 catches.
export_stage(evs, requested, failure) ==
    IF ~(requested /\ evs # <<>>)
    THEN [calls |-> <<>>, exported |-> "not_requested", raised |-> FALSE]
    ELSE IF failure = "makedirs"
    THEN [calls |-> <<"JsonExporter">>, exported |-> "failed", raised |-> TRUE]
    ELSE IF failure = "write"
    THEN [calls |-> <<"JsonExporter", "export_events">>, exported |-> "failed",
          raised |-> FALSE]
    ELSE [calls |-> <<"JsonExporter", "export_events">>, exported |-> "written",
          raised |-> FALSE]

\* values of --sync-retries in a run of main()
MainRetriesArgs == {0, 1, 2}

\* what the calendar holds for the window in a run of main()
MainSources ==
    {<<>>, <<PlainEvent>>, <<OOOEvent>>, <<PlainEvent, OOOEvent>>,
     <<PlainEvent, PlainEvent>>}

----------------------------------------------------------------------------
(* SpecMain: one run of main() from its first line *)

InitMain ==
    /\ pc = "start"
    /\ outlook = None /\ namespace = None /\ calendar = None
    /\ source = <<>>
    /\ filtered_items = <<>> /\ idx = 0 /\ events = <<>> /\ handled = <<>>
    /\ fetch_log = "none" /\ propagated = FALSE /\ trace = <<>>
    /\ now \in {[Midnight EXCEPT !.hour = 9]}
    /\ days_back = 1 /\ days_forward = 1
    /\ start_date = Midnight /\ end_date = Midnight /\ wpc = "args"
    /\ retries \in MainRetriesArgs /\ timeout = 10
    /\ attempt = 0 /\ outcomes = <<>> /\ slept = <<>>
    /\ sync_ret = None /\ spc = "idle"
    /\ export_json \in BOOLEAN /\ exported = "none" /\ summary = None
    /\ CleanIdle /\ JsonIdle /\ ComIdle /\ ViewIdle

\* lines 136-141: sync_outlook is called
CallSync ==
    /\ pc = "start"
    /\ pc' = "sync" /\ spc' = "loop"
    /\ trace' = Append(trace, "sync_outlook")
    /\ UNCHANGED <<outlook, namespace, calendar, source, filtered_items, idx, events,
                   handled, fetch_log, propagated, retries, timeout, attempt,
                   outcomes, slept, sync_ret, exportVars, jsonVars, comVars,
                   viewVars, cleanVars, windowVars>>

\* lines 143-144: sync_outlook has returned
AfterSync ==
    /\ pc = "sync" /\ spc = "returned"
    /\ LET a == after_sync(sync_ret)
       IN  /\ trace' = IF a.warned THEN Append(trace, "warning") ELSE trace
           /\ pc' = a.next
    /\ UNCHANGED <<outlook, namespace, calendar, source, filtered_items, idx, events,
                   handled, fetch_log, propagated, syncVars, exportVars, jsonVars,
                   comVars, viewVars, cleanVars, windowVars>>

\* lines 151-154
GetOutlookEventsMain == GetOutlookEventsFrom(MainSources)

\* lines 199-215: the loop is over, the export runs if requested
Export ==
    /\ pc = "loop"
    /\ idx = Len(filtered_items)
    /\ \E failure \in ExportFailures :
         LET x == export_stage(events, export_json, failure)
         IN  /\ trace' = trace \o x.calls
             /\ exported' = x.exported
             /\ propagated' = x.raised
             /\ pc' = IF x.raised THEN "crashed" ELSE "summary"
    /\ UNCHANGED <<outlook, namespace, calendar, source, filtered_items, idx, events,
                   handled, fetch_log, export_json, summary, syncVars, jsonVars,
                   comVars, viewVars, cleanVars, windowVars>>

\* lines 218-221: the summary output
Summary ==
    /\ pc = "summary"
    /\ summary' = Len(events)
    /\ trace' = Append(trace, "summary")
    /\ pc' = "done"
    /\ UNCHANGED <<outlook, namespace, calendar, source, filtered_items, idx, events,
                   handled, fetch_log, propagated, export_json, exported, syncVars,
                   jsonVars, comVars, viewVars, cleanVars, windowVars>>

NextMain ==
    \/ CallSync
    \/ (pc = "sync" /\ SyncAttempt)
    \/ (pc = "sync" /\ SyncFallsOff)
    \/ AfterSync
    \/ NewFetcher
    \/ GetOutlookEventsMain
    \/ ProcessItem
    \/ Export
    \/ Summary

SpecMain == InitMain /\ [][NextMain]_vars

----------------------------------------------------------------------------
(* C15, C16: main(), under SpecMain *)

\* how often main() has made the call
Count(name) == Cardinality({k \in 1..Len(trace) : trace[k] = name})

\* main() has returned or an exception has left it
RunOver == pc \in {"done", "crashed"}

\* C15: the synchronization has returned before the fetch starts; a failed
\* synchronization does not prevent the fetch: every run goes on until it
\* is over, and by then get_outlook_events has been called exactly once,
\* after sync_outlook returned, whatever it returned.
C15_SyncThenFetch ==
    /\ Count("sync_outlook") <= 1 /\ Count("get_outlook_events") <= 1
    /\ spc = "loop" => Count("get_outlook_events") = 0
    /\ Count("get_outlook_events") = 1 =>
         /\ spc = "returned"
         /\ trace[1] = "sync_outlook"
    /\ ~RunOver => ENABLED NextMain
    /\ RunOver => Count("get_outlook_events") = 1

C15_Witness ==
    /\ pc = "done"
    /\ sync_ret = Bool(FALSE) /\ retries = 2
    /\ trace = <<"sync_outlook", "warning", "OutlookCalendarFetcher",
                 "get_outlook_events", "summary">>

\* C16: when the export was requested and a step of it failed, no exception
\* leaves main() and the run ends with the summary of the retrieved events.
C16_ExportNeverFatal ==
    (export_json /\ exported = "failed") =>
        /\ ~propagated /\ pc # "crashed"
        /\ pc = "done" => summary = Len(events)

----------------------------------------------------------------------------
(* JsonExporter (json_exporter.py) *)

\* a datetime-like value of a row: whether its isoformat() raises, and
\* whether str() of it raises
Value(t, iso, st) ==
    [type |-> "datetime", v |-> t, iso_raises |-> iso, str_raises |-> st]

\* val.isoformat() and str(val), as text
IsoFormat(val) == Str(<<"isoformat", val.v>>)
StrOf(val)     == Str(<<"str", val.v>>)

\* the columns of a row, in the order of row.items()
Columns == <<"Subject", "Start", "End">>

\* lines 61-82 without the fallback of line 82: the failure leaves the function
convert_field_no_fallback(val) ==
    IF val = None THEN [raised |-> FALSE, out |-> None]
    ELSE IF val.type = "datetime"
    THEN IF val.iso_raises THEN [raised |-> TRUE, out |-> None]
         ELSE [raised |-> FALSE, out |-> IsoFormat(val)]
    ELSE [raised |-> FALSE, out |-> val]

\* lines 61-82: one field; when the conversion raises, str(val) is stored,
\* and an exception of str(val) itself leaves the function
convert_field(val) ==
    IF val = None THEN [raised |-> FALSE, out |-> None]
    ELSE IF val.type = "datetime"
    THEN IF val.iso_raises
         THEN IF val.str_raises THEN [raised |-> TRUE, out |-> None]
              ELSE [raised |-> FALSE, out |-> StrOf(val)]
         ELSE [raised |-> FALSE, out |-> IsoFormat(val)]
    ELSE [raised |-> FALSE, out |-> val]

\* lines 57-83
convert_datetime_fields(row) ==
    LET c == [k \in 1..Len(Columns) |-> convert_field(row[Columns[k]])]
    IN  IF \E k \in 1..Len(Columns) : c[k].raised
        THEN [raised |-> TRUE, out |-> None]
        ELSE [raised |-> FALSE,
              out |-> [Subject |-> c[1].out, Start |-> c[2].out, End |-> c[3].out]]

\* lines 122-139: events_list; a row whose to_dict() or conversion raises is
\* skipped and the loop goes on
RECURSIVE convert_rows(_)
convert_rows(rows) ==
    IF rows = <<>> THEN <<>>
    ELSE LET row == Head(rows)
             c   == convert_datetime_fields(row)
         IN  IF row.to_dict_raises \/ c.raised
             THEN convert_rows(Tail(rows))
             ELSE <<c.out>> \o convert_rows(Tail(rows))

Digit(d) == <<"0", "1", "2", "3", "4", "5", "6", "7", "8", "9">>[d + 1]

\* the decimal digits of a natural number
RECURSIVE digits(_)
digits(n) == IF n < 10 THEN <<Digit(n)>> ELSE digits(n \div 10) \o <<Digit(n % 10)>>

\* n / d rounded to an integer, a tie going to the even one
round_half_even(n, d) ==
    LET q == n \div d
        r == n % d
    IN  IF 2 * r > d \/ (2 * r = d /\ q % 2 = 1) THEN q + 1 ELSE q

\* line 148: f"{n/d:.1%}"
format_percent(n, d) ==
    LET p == round_half_even(1000 * n, d)
    IN  digits(p \div 10) \o <<".", Digit(p % 10), "%">>

\* lines 105-172: the document, and whether the call raised
export_events(df, write_fails) ==
    IF df.type # "DataFrame"
    THEN [data |-> None, raised |-> TRUE]
    ELSE LET events_list  == convert_rows(df.rows)
             total_events == Len(df.rows)
             data == [metadata |->
                         [event_count    |-> Len(events_list),
                          original_count |-> total_events,
                          success_rate   |->
                              IF total_events > 0
                              THEN Str(format_percent(Len(events_list), total_events))
                              ELSE Str(<<"N", "/", "A">>)],
                      events |-> events_list]
         IN  [data |-> data, raised |-> write_fails]

MaxRows == 3

GoodDate    == Value("d1", FALSE, FALSE)
BadDate     == Value("d2", TRUE, FALSE)
Unprintable == Value("d3", TRUE, TRUE)

Row(subject, start, end, broken) ==
    [Subject |-> subject, Start |-> start, End |-> end, to_dict_raises |-> broken]

GoodRow        == Row(Str(<<"a">>), GoodDate, GoodDate, FALSE)
UntitledRow    == Row(None, GoodDate, GoodDate, FALSE)
BadStartRow    == Row(Str(<<"a">>), BadDate, GoodDate, FALSE)
BadDatesRow    == Row(Str(<<"a">>), BadDate, BadDate, FALSE)
UnprintableRow == Row(Str(<<"a">>), GoodDate, Unprintable, FALSE)
BrokenRow      == Row(Str(<<"a">>), GoodDate, GoodDate, TRUE)

Rows == {GoodRow, UntitledRow, BadStartRow, BadDatesRow, UnprintableRow, BrokenRow}

DataFrame(rows) == [type |-> "DataFrame", rows |-> rows]

DataFrames == {DataFrame(rows) : rows \in SeqsUpTo(Rows, MaxRows)}

----------------------------------------------------------------------------
(* SpecExport: one call of JsonExporter.export_events *)

InitExport ==
    /\ events_df \in DataFrames \cup {None}
    /\ export_data = None /\ export_raised = FALSE /\ xpc = "args"
    /\ CleanIdle /\ WindowIdle /\ MainIdle /\ SyncIdle /\ ExportIdle /\ ComIdle
    /\ ViewIdle

ExportEvents ==
    /\ xpc = "args"
    /\ \E write_fails \in BOOLEAN :
         LET x == export_events(events_df, write_fails)
         IN  /\ export_data' = x.data
             /\ export_raised' = x.raised
             /\ xpc' = IF x.raised THEN "raised" ELSE "returned"
    /\ UNCHANGED <<events_df, cleanVars, windowVars, mainVars, syncVars, exportVars,
                   comVars, viewVars>>

NextExport == ExportEvents

SpecExport == InitExport /\ [][NextExport]_vars

----------------------------------------------------------------------------
(* C17: export_events, under SpecExport *)

\* the row cannot be exported at all
FailsEntirely(row) ==
    \/ row.to_dict_raises
    \/ \E k \in 1..Len(Columns) :
         LET val == row[Columns[k]]
         IN  val # None /\ val.type = "datetime" /\ val.iso_raises /\ val.str_raises

\* the input rows that do not fail entirely, in order
Kept == SelectSeq(events_df.rows, LAMBDA row : ~FailsEntirely(row))

\* the value of a sequence of decimal digits
RECURSIVE ValueOf(_)
ValueOf(ds) ==
    IF ds = <<>> THEN 0
    ELSE 10 * ValueOf(SubSeq(ds, 1, Len(ds) - 1))
         + (CHOOSE d \in 0..9 : Digit(d) = ds[Len(ds)])

\* sr is text "<digits>.<digit>%" and the number it shows is n / total as a
\* percentage, to the nearest tenth
IsPercentage(sr, n, total) ==
    /\ sr.type = "str"
    /\ Len(sr.v) >= 4
    /\ sr.v[Len(sr.v)] = "%" /\ sr.v[Len(sr.v) - 2] = "."
    /\ \A k \in (1..(Len(sr.v) - 3)) \cup {Len(sr.v) - 1} :
         \E d \in 0..9 : sr.v[k] = Digit(d)
    /\ total > 0
    /\ LET p    == ValueOf(SubSeq(sr.v, 1, Len(sr.v) - 3) \o <<sr.v[Len(sr.v) - 1]>>)
           diff == p * total - 1000 * n
       IN  2 * diff <= total /\ -2 * diff <= total

\* every row that does not fail entirely is exported, in order, whatever
\* rows failed before it, and a date field whose conversion failed holds
\* the string form of the value
RowsContinue ==
    /\ Len(export_data.events) = Len(Kept)
    /\ \A k \in 1..Len(Kept) : \A c \in 1..Len(Columns) :
         LET val == Kept[k][Columns[c]]
             out == export_data.events[k][Columns[c]]
         IN  /\ val = None => out = None
             /\ (val # None /\ val.type = "datetime") =>
                    out = IF val.iso_raises THEN StrOf(val) ELSE IsoFormat(val)

CountsHold ==
    /\ export_data.metadata.original_count = Len(events_df.rows)
    /\ export_data.metadata.event_count = Len(export_data.events)
    /\ export_data.metadata.event_count <= export_data.metadata.original_count

\* C17 (as stated): after export_events returned, the rows continue past
\* failures, the counts hold, and success_rate is the percentage
\* event_count / original_count.
C17_RateAlwaysPercentage ==
    xpc = "returned" =>
        /\ RowsContinue
        /\ CountsHold
        /\ IsPercentage(export_data.metadata.success_rate,
                        export_data.metadata.event_count,
                        export_data.metadata.original_count)

\* C17 (amended): after export_events returned, the rows continue past
\* failures, the counts hold, and success_rate is the percentage
\* event_count / original_count when there is at least one input row and
\* the text "N/A" when there is none.
C17_ContinuesPastFailures ==
    xpc = "returned" =>
        /\ RowsContinue
        /\ CountsHold
        /\ IF export_data.metadata.original_count > 0
           THEN IsPercentage(export_data.metadata.success_rate,
                             export_data.metadata.event_count,
                             export_data.metadata.original_count)
           ELSE export_data.metadata.success_rate = Str(<<"N", "/", "A">>)

C17_Witness ==
    /\ xpc = "returned"
    /\ events_df = DataFrame(<<BadStartRow, BrokenRow, GoodRow>>)
    /\ Len(export_data.events) = 2
    /\ export_data.events[1].Start = StrOf(BadDate)
    /\ export_data.metadata.success_rate = Str(<<"6", "6", ".", "7", "%">>)

----------------------------------------------------------------------------
(* The COM session of OutlookCalendarFetcher (fetcher.py, app.py) *)

\* the CoInitialize of a connection attempt (line 17, line 30) succeeded:
\* it is the first step, so it did unless it is the step that raised
co_initialized(fail) == IF fail = "CoInitialize" THEN 0 ELSE 1

\* what the calendar holds in a use of the fetcher
FetcherSources == MainSources

----------------------------------------------------------------------------
(* SpecFetcher: one use of the fetcher, by main() or by get_events_df *)

InitFetcher ==
    /\ caller \in {"main", "dashboard"}
    /\ com_inits = 0 /\ com_uninits = 0 /\ fetcher_alive = FALSE
    /\ fpc = IF caller = "dashboard" THEN "enter" ELSE "new_fetcher"
    /\ CleanIdle /\ WindowIdle /\ MainIdle /\ SyncIdle /\ ExportIdle /\ JsonIdle
    /\ ViewIdle

\* app.py line 26: pythoncom.CoInitialize() in the try of get_events_df; when
\* it raises, the finally block runs next
DashboardCoInitialize ==
    /\ caller = "dashboard" /\ fpc = "enter"
    /\ \E ok \in BOOLEAN :
         /\ com_inits' = IF ok THEN com_inits + 1 ELSE com_inits
         /\ fpc' = IF ok THEN "new_fetcher" ELSE "finally"
    /\ UNCHANGED <<caller, com_uninits, fetcher_alive, cleanVars, windowVars, mainVars,
                   syncVars, exportVars, jsonVars, viewVars>>

\* main.py line 147, app.py line 28: OutlookCalendarFetcher()
Construct ==
    /\ fpc = "new_fetcher"
    /\ \E fail \in ConnectFailures :
         LET self == fetcher_init(fail)
         IN  /\ outlook' = self.outlook
             /\ namespace' = self.namespace
             /\ calendar' = self.calendar
             /\ com_inits' = com_inits + co_initialized(fail)
    /\ fetcher_alive' = TRUE
    /\ fpc' = "fetch"
    /\ UNCHANGED <<caller, com_uninits, pc, source, filtered_items, idx, events, handled,
                   fetch_log, propagated, trace, cleanVars, windowVars, syncVars,
                   exportVars, jsonVars, viewVars>>

\* main.py lines 151-154, app.py line 31: fetch_events, and what the caller
\* does with the events
Fetch ==
    /\ fpc = "fetch"
    /\ \E refail \in ReinitFailures([outlook |-> outlook, namespace |-> namespace,
                                        calendar |-> calendar]),
          raises \in BOOLEAN :
       \E src \in IF refail = "none" /\ ~raises THEN FetcherSources ELSE {<<>>} :
         LET self == [outlook |-> outlook, namespace |-> namespace,
                      calendar |-> calendar]
             r    == fetch_events(self, refail, raises, src)
         IN  /\ outlook' = r.self.outlook
             /\ namespace' = r.self.namespace
             /\ calendar' = r.self.calendar
             /\ source' = src
             /\ filtered_items' = r.ret
             /\ fetch_log' = r.log
             /\ com_inits' = IF all_connected(self) THEN com_inits
                             ELSE com_inits + co_initialized(refail)
    /\ fpc' = IF caller = "dashboard" THEN "finally" ELSE "del"
    /\ UNCHANGED <<caller, com_uninits, fetcher_alive, pc, idx, events, handled,
                   propagated, trace, cleanVars, windowVars, syncVars, exportVars,
                   jsonVars, viewVars>>

\* app.py lines 85-90: the finally block of get_events_df
DashboardFinally ==
    /\ caller = "dashboard" /\ fpc = "finally"
    /\ com_uninits' = com_uninits + 1
    /\ fpc' = IF fetcher_alive THEN "del" ELSE "over"
    /\ UNCHANGED <<caller, com_inits, fetcher_alive, cleanVars, windowVars, mainVars,
                   syncVars, exportVars, jsonVars, viewVars>>

\* fetcher.py lines 65-70: __del__, when the caller's frame lets the fetcher go
Del ==
    /\ fpc = "del" /\ fetcher_alive
    /\ com_uninits' = com_uninits + 1
    /\ fetcher_alive' = FALSE
    /\ fpc' = "over"
    /\ UNCHANGED <<caller, com_inits, cleanVars, windowVars, mainVars,
                   syncVars, exportVars, jsonVars, viewVars>>

NextFetcher == DashboardCoInitialize \/ Construct \/ Fetch \/ DashboardFinally \/ Del

SpecFetcher == InitFetcher /\ [][NextFetcher]_vars

----------------------------------------------------------------------------
(* C18: the COM session, under SpecFetcher *)

\* C18: no release happens without a matching initialisation, and when the
\* run is over and the fetcher destroyed, every successful CoInitialize has
\* been matched by exactly one CoUninitialize.
C18_SessionReleased ==
    /\ com_uninits <= com_inits
    /\ fpc = "over" => com_inits = com_uninits

----------------------------------------------------------------------------
(* get_today_events (view_calendar.py) *)

List(l) == [type |-> "list", v |-> l]

\* the attributes lines 91-98 read of an item that is not skipped
ViewedAttributes == {"Subject", "Start", "End", "Location", "Body", "Categories"}

\* lines 92-99: the dictionary of one item; clean_body_text is the copy of
\* lines 21-44, the same text as text_cleaner.py
view_event(item) ==
    [Subject    |-> item.Subject,
     Start      |-> item.Start,
     End        |-> item.End,
     Location   |-> item.Location,
     Body       |-> Str(clean_body_text(item.Body)),
     Categories |-> item.Categories]

\* lines 85-99 for one item: "skipped", "appended", or "raised" when reading
\* an attribute raises (absent, or unreadable)
view_item(item) ==
    IF GetFails(item, "Categories") THEN "raised"
    ELSE IF Truthy(item.Categories) /\ str_contains_OOO(item.Categories.v)
    THEN IF GetFails(item, "Subject") THEN "raised" ELSE "skipped"
    ELSE IF \E a \in ViewedAttributes : GetFails(item, a) THEN "raised"
    ELSE IF clean_body_text_raises(item.Body) THEN "raised"
    ELSE "appended"

\* one turn of the loop with the error of an item kept to that item
view_turn_isolating(st, item) ==
    LET o == view_item(item)
    IN  [events |-> IF o = "appended" THEN Append(st.events, view_event(item))
                    ELSE st.events,
         idx    |-> st.idx + 1,
         raised |-> FALSE]

\* lines 84-99: one turn of the loop; an exception leaves the loop for the
\* except of line 104
view_turn(st, item) ==
    LET o == view_item(item)
    IN  [events |-> IF o = "appended" THEN Append(st.events, view_event(item))
                    ELSE st.events,
         idx    |-> st.idx + 1,
         raised |-> o = "raised"]

----------------------------------------------------------------------------
(* SpecViewer: one call of get_today_events *)

InitViewer ==
    /\ vpc = "connect" /\ view_ret = None
    /\ CleanIdle /\ WindowIdle /\ MainIdle /\ SyncIdle /\ ExportIdle /\ JsonIdle
    /\ ComIdle

\* lines 53-79: the connection and Restrict, inside the try of line 50
ViewConnect ==
    /\ vpc = "connect"
    /\ \E raises \in BOOLEAN :
       \E src \in IF raises THEN {<<>>} ELSE Sources :
         /\ source' = src
         /\ filtered_items' = src
         /\ view_ret' = IF raises THEN List(<<>>) ELSE view_ret
         /\ vpc' = IF raises THEN "returned" ELSE "loop"
    /\ UNCHANGED <<pc, outlook, namespace, calendar, idx, events, handled, fetch_log,
                   propagated, trace, cleanVars, windowVars, syncVars, exportVars,
                   jsonVars, comVars>>

\* lines 84-99, and lines 104-106 when the turn raises
ViewItem ==
    /\ vpc = "loop"
    /\ idx < Len(filtered_items)
    /\ LET st == view_turn([events |-> events, idx |-> idx], filtered_items[idx + 1])
       IN  /\ events' = st.events
           /\ idx' = st.idx
           /\ view_ret' = IF st.raised THEN List(<<>>) ELSE view_ret
           /\ vpc' = IF st.raised THEN "returned" ELSE "loop"
    /\ UNCHANGED <<pc, outlook, namespace, calendar, source, filtered_items, handled,
                   fetch_log, propagated, trace, cleanVars, windowVars, syncVars,
                   exportVars, jsonVars, comVars>>

\* lines 101-102: return events
ViewReturn ==
    /\ vpc = "loop"
    /\ idx = Len(filtered_items)
    /\ view_ret' = List(events)
    /\ vpc' = "returned"
    /\ UNCHANGED <<mainVars, cleanVars, windowVars, syncVars, exportVars, jsonVars,
                   comVars>>

NextViewer == ViewConnect \/ ViewItem \/ ViewReturn

SpecViewer == InitViewer /\ [][NextViewer]_vars

----------------------------------------------------------------------------
(* C19: get_today_events, under SpecViewer *)

\* reading the item as the viewer reads it raises: an attribute it reads is
\* absent or unreadable
Unviewable(item) ==
    IF ~GetFails(item, "Categories") /\ MentionsOOO(item)
    THEN GetFails(item, "Subject")
    ELSE \E a \in ViewedAttributes : GetFails(item, a)

\* the items the viewer's category test keeps, in order
Shown == SelectSeq(source, LAMBDA item : ~MentionsOOO(item))

\* C19: the result of get_today_events is empty as soon as reading one
\* event raises, whatever was collected before, and otherwise it is the
\* complete filtered sequence, never a part of it; an event whose start or
\* end is null is in it.
C19_AllOrNothing ==
    vpc = "returned" =>
        IF \E k \in 1..Len(source) : Unviewable(source[k])
        THEN view_ret = List(<<>>)
        ELSE /\ Len(view_ret.v) = Len(Shown)
             /\ \A k \in 1..Len(Shown) :
                  /\ view_ret.v[k].Subject = Shown[k].Subject
                  /\ view_ret.v[k].Start = Shown[k].Start
                  /\ view_ret.v[k].End = Shown[k].End

C19_Witness ==
    /\ vpc = "returned"
    /\ Len(source) = 3
    /\ source[1] = [PlainEvent EXCEPT !.Start = None]
    /\ source[3] = [PlainEvent EXCEPT !.missing = {"End"}]
    /\ Len(events) = 2 /\ events[1].Start = None
    /\ view_ret = List(<<>>)

====
